---- MODULE Spec2Model ----
(***************************************************************************)
(* The SCCP Called/Calling Party Address codec of params/party-address.go: *)
(* the PartyAddress value, its constructor, SetLength, MarshalLen,         *)
(* MarshalBinary/MarshalTo and ParsePartyAddress/UnmarshalBinary.          *)
(*                                                                         *)
(* Byte slices are sequences; the Go index i is the TLA+ index i + 1.      *)
(* An index or slice expression out of range, or a make with a negative    *)
(* length, ends the call with the outcome "panic".                         *)
(***************************************************************************)
EXTENDS Integers, Sequences, FiniteSets

VARIABLES p, pfrom, wire, src, buf, err, off, op

vars == <<p, pfrom, wire, src, buf, err, off, op>>

(***************************************************************************)
(* Bounds of the explored inputs.                                          *)
(***************************************************************************)
\* digit sequences of every length 0..ShortInfoLen are built
ShortInfoLen == 2
\* the longest digit sequence built
MaxInfoLen == 250
\* decoder input buffers of every length 0..MaxBufLen are tried
MaxBufLen == 10

(***************************************************************************)
(* Go integer conversions and bit operations.                              *)
(***************************************************************************)
Uint8(x) == x % 256

Uint16(x) == x % 65536

RECURSIVE BitOr(_, _)
BitOr(a, b) ==
    IF a = 0 THEN b
    ELSE IF b = 0 THEN a
    ELSE (IF a % 2 = 1 \/ b % 2 = 1 THEN 1 ELSE 0) + 2 * BitOr(a \div 2, b \div 2)

Min(a, b) == IF a <= b THEN a ELSE b

\* b[i] is a legal index expression
InRange(b, i) == i >= 0 /\ i < Len(b)

\* b[lo:hi] is a legal slice expression (cap(b) = len(b) for these buffers)
InSlice(b, lo, hi) == 0 <= lo /\ lo <= hi /\ hi <= Len(b)

\* the Go expression b[i]
At(b, i) == b[i + 1]

\* the Go expression b[lo:hi]
Slice(b, lo, hi) == SubSeq(b, lo + 1, hi)

\* make([]byte, n)
MakeBytes(n) == [i \in 1..n |-> 0]

\* copy(dst, s): the first min(len(dst), len(s)) bytes of dst are replaced
Copy(dst, s) ==
    [i \in 1..Len(dst) |-> IF i <= Min(Len(dst), Len(s)) THEN s[i] ELSE dst[i]]

(***************************************************************************)
(* The PartyAddress value (with its embedded GlobalTitle).                 *)
(***************************************************************************)
Nil == [nil |-> TRUE]

ZeroValue ==
    [Length |-> 0, Indicator |-> 0, SignalingPointCode |-> 0,
     SubsystemNumber |-> 0, TranslationType |-> 0, NumberingPlan |-> 0,
     EncodingScheme |-> 0, NatureOfAddressIndicator |-> 0,
     GlobalTitleInfo |-> <<>>]

RouteOnGT(v) == (v.Indicator \div 64) % 2 = 0

GTI(v) == (v.Indicator \div 4) % 16

HasSSN(v) == (v.Indicator \div 2) % 2 = 1

HasPC(v) == v.Indicator % 2 = 1

IsOddDigits(v) == v.EncodingScheme = 1

(***************************************************************************)
(* MarshalLen and SetLength.                                               *)
(***************************************************************************)
MarshalLen(v) ==
    LET l0 == 2 + Len(v.GlobalTitleInfo)
        l1 == IF HasPC(v) THEN l0 + 2 ELSE l0
        l2 == IF HasSSN(v) THEN l1 + 1 ELSE l1
    IN  CASE GTI(v) = 1 -> l2 + 1
          [] GTI(v) = 2 -> l2 + 1
          [] GTI(v) = 3 -> l2 + 2
          [] GTI(v) = 4 -> l2 + 3
          [] OTHER -> l2

\* SetLength with the GTI 2 row of its copy of the layout table lost
SetLengthL_NoGTI2(v) ==
    LET l0 == 1 + Len(v.GlobalTitleInfo)
        l1 == IF HasPC(v) THEN l0 + 2 ELSE l0
        l2 == IF HasSSN(v) THEN l1 + 1 ELSE l1
    IN  CASE GTI(v) = 1 -> l2 + 1
          [] GTI(v) = 3 -> l2 + 2
          [] GTI(v) = 4 -> l2 + 3
          [] OTHER -> l2

\* the local l of SetLength before its conversion to uint8
SetLengthL(v) ==
    LET l0 == 1 + Len(v.GlobalTitleInfo)
        l1 == IF HasPC(v) THEN l0 + 2 ELSE l0
        l2 == IF HasSSN(v) THEN l1 + 1 ELSE l1
    IN  CASE GTI(v) = 1 -> l2 + 1
          [] GTI(v) = 2 -> l2 + 1
          [] GTI(v) = 3 -> l2 + 2
          [] GTI(v) = 4 -> l2 + 3
          [] OTHER -> l2

SetLength(v) == [v EXCEPT !.Length = Uint8(SetLengthL(v))]

\* a struct literal &PartyAddress{...} that leaves Length at its zero value
Literal(gti, spc, ssn, tt, np, es, nai, gt) ==
    [Length |-> 0, Indicator |-> Uint8(gti), SignalingPointCode |-> Uint16(spc),
     SubsystemNumber |-> Uint8(ssn), TranslationType |-> Uint8(tt),
     NumberingPlan |-> np, EncodingScheme |-> es,
     NatureOfAddressIndicator |-> Uint8(nai), GlobalTitleInfo |-> gt]

NewPartyAddress(gti, spc, ssn, tt, np, es, nai, gt) ==
    LET v == Literal(gti, spc, ssn, tt, np, es, nai, gt)
    IN  [v EXCEPT !.Length = Uint8(MarshalLen(v) - 1)]

(***************************************************************************)
(* The encoder.  A marshal state is [b, offset, panic].                    *)
(***************************************************************************)
\* b[i] = x
Put(st, i, x) ==
    IF st.panic THEN st
    ELSE IF ~InRange(st.b, i) THEN [st EXCEPT !.panic = TRUE]
    ELSE [st EXCEPT !.b[i + 1] = Uint8(x)]

Advance(st, n) == IF st.panic THEN st ELSE [st EXCEPT !.offset = @ + n]

\* binary.BigEndian.PutUint16(b[lo:lo+2], x)
PutUint16(st, lo, x) ==
    IF st.panic THEN st
    ELSE IF ~InSlice(st.b, lo, lo + 2) THEN [st EXCEPT !.panic = TRUE]
    ELSE Put(Put(st, lo, x \div 256), lo + 1, x % 256)

\* the byte uint8(p.NumberingPlan<<4 | p.EncodingScheme)
PackNPES(v) == Uint8(BitOr(v.NumberingPlan * 16, v.EncodingScheme))

MarshalHeader(v, b) ==
    Advance(Put(Put([b |-> b, offset |-> 0, panic |-> FALSE], 0, v.Length),
                1, v.Indicator), 2)

MarshalPC(v, st) ==
    IF HasPC(v) THEN Advance(PutUint16(st, st.offset, v.SignalingPointCode), 2)
    ELSE st

MarshalSSN(v, st) ==
    IF HasSSN(v) THEN Advance(Put(st, st.offset, v.SubsystemNumber), 1)
    ELSE st

\* MarshalGT writing the GTI 4 fields in the order of GTI 1 first
MarshalGT_NatureFirst(v, st) ==
    CASE GTI(v) = 1 ->
           Advance(Put(st, st.offset, v.NatureOfAddressIndicator), 1)
      [] GTI(v) = 2 ->
           Advance(Put(st, st.offset, v.TranslationType), 1)
      [] GTI(v) = 3 ->
           Advance(Put(Put(st, st.offset, v.TranslationType),
                       st.offset + 1, PackNPES(v)), 2)
      [] GTI(v) = 4 ->
           Advance(Put(Put(Put(st, st.offset, v.NatureOfAddressIndicator),
                           st.offset + 1, v.TranslationType),
                       st.offset + 2, PackNPES(v)), 3)
      [] OTHER -> st

MarshalGT(v, st) ==
    CASE GTI(v) = 1 ->
           Advance(Put(st, st.offset, v.NatureOfAddressIndicator), 1)
      [] GTI(v) = 2 ->
           Advance(Put(st, st.offset, v.TranslationType), 1)
      [] GTI(v) = 3 ->
           Advance(Put(Put(st, st.offset, v.TranslationType),
                       st.offset + 1, PackNPES(v)), 2)
      [] GTI(v) = 4 ->
           Advance(Put(Put(Put(st, st.offset, v.TranslationType),
                           st.offset + 1, PackNPES(v)),
                       st.offset + 2, v.NatureOfAddressIndicator), 3)
      [] OTHER -> st

\* copy(b[offset:p.MarshalLen()], p.GlobalTitleInfo)
MarshalInfo(v, st) ==
    IF st.panic THEN st
    ELSE IF ~InSlice(st.b, st.offset, MarshalLen(v)) THEN [st EXCEPT !.panic = TRUE]
    ELSE [st EXCEPT !.b =
            Slice(st.b, 0, st.offset)
            \o Copy(Slice(st.b, st.offset, MarshalLen(v)), v.GlobalTitleInfo)
            \o Slice(st.b, MarshalLen(v), Len(st.b))]

MarshalTo(v, b) ==
    MarshalInfo(v, MarshalGT(v, MarshalSSN(v, MarshalPC(v, MarshalHeader(v, b)))))

\* b := make([]byte, p.MarshalLen()); p.MarshalTo(b); return b
MarshalBinary(v) == MarshalTo(v, MakeBytes(MarshalLen(v))).b

(***************************************************************************)
(* The decoder.  An unmarshal state is [p, offset, err]; err is "nil",     *)
(* "eof" (io.ErrUnexpectedEOF), "misfit" (sccp: party address length       *)
(* misfit) or "panic".                                                     *)
(***************************************************************************)
Fail(st, e) == [st EXCEPT !.err = e]

\* the up-front check asking for two bytes only
TooShort_Two(b) == Len(b) < 2

\* len(b) < 3
TooShort(b) == Len(b) < 3

\* the length check off by one
LengthExceeds_Strict(v, b) == v.Length > Len(b)

\* int(p.Length) >= len(b)
LengthExceeds(v, b) == v.Length >= Len(b)

\* p.<f> = b[offset]; offset++
ReadByte(st, b, f) ==
    IF st.err # "nil" THEN st
    ELSE IF ~InRange(b, st.offset) THEN Fail(st, "panic")
    ELSE [st EXCEPT !.p[f] = At(b, st.offset), !.offset = @ + 1]

\* if offset+k >= len(b) { return io.ErrUnexpectedEOF }
NeedMore(st, b, k) ==
    IF st.err # "nil" THEN st
    ELSE IF st.offset + k >= Len(b) THEN Fail(st, "eof")
    ELSE st

\* NumberingPlan = int(b[offset]) >> 4 & 0xf; EncodingScheme = int(b[offset]) & 0xf; offset++
ReadNPES(st, b) ==
    IF st.err # "nil" THEN st
    ELSE IF ~InRange(b, st.offset) THEN Fail(st, "panic")
    ELSE [st EXCEPT !.p.NumberingPlan = (At(b, st.offset) \div 16) % 16,
                    !.p.EncodingScheme = At(b, st.offset) % 16,
                    !.offset = @ + 1]

\* UnmarshalBinary reading the indicator before it checks the length byte
UnmarshalHeader_IndicatorFirst(v, b) ==
    IF TooShort(b) THEN [p |-> v, offset |-> 0, err |-> "eof"]
    ELSE IF ~InRange(b, 0) \/ ~InRange(b, 1) THEN [p |-> v, offset |-> 0, err |-> "panic"]
    ELSE LET v1 == [v EXCEPT !.Length = At(b, 0), !.Indicator = At(b, 1)]
         IN  IF LengthExceeds(v1, b) THEN [p |-> v1, offset |-> 0, err |-> "eof"]
             ELSE [p |-> v1, offset |-> 2, err |-> "nil"]

UnmarshalHeader(v, b) ==
    IF TooShort(b) THEN [p |-> v, offset |-> 0, err |-> "eof"]
    ELSE IF ~InRange(b, 0) THEN [p |-> v, offset |-> 0, err |-> "panic"]
    ELSE LET v1 == [v EXCEPT !.Length = At(b, 0)]
         IN  IF LengthExceeds(v1, b) THEN [p |-> v1, offset |-> 0, err |-> "eof"]
             ELSE IF ~InRange(b, 1) THEN [p |-> v1, offset |-> 0, err |-> "panic"]
             ELSE [p |-> [v1 EXCEPT !.Indicator = At(b, 1)],
                   offset |-> 2, err |-> "nil"]

UnmarshalPC(st, b) ==
    IF st.err # "nil" \/ ~HasPC(st.p) THEN st
    ELSE LET end == st.offset + 2
         IN  IF end >= Len(b) THEN Fail(st, "eof")
             ELSE IF ~InSlice(b, st.offset, end) THEN Fail(st, "panic")
             ELSE [st EXCEPT !.p.SignalingPointCode =
                                 At(b, st.offset) * 256 + At(b, st.offset + 1),
                             !.offset = end]

UnmarshalSSN(st, b) ==
    IF st.err # "nil" \/ ~HasSSN(st.p) THEN st
    ELSE NeedMore(ReadByte(st, b, "SubsystemNumber"), b, 0)

UnmarshalGT(st, b) ==
    IF st.err # "nil" THEN st
    ELSE CASE GTI(st.p) = 1 -> ReadByte(st, b, "NatureOfAddressIndicator")
           [] GTI(st.p) = 2 -> ReadByte(st, b, "TranslationType")
           [] GTI(st.p) = 3 ->
                ReadNPES(NeedMore(ReadByte(st, b, "TranslationType"), b, 0), b)
           [] GTI(st.p) = 4 ->
                ReadByte(ReadNPES(NeedMore(ReadByte(st, b, "TranslationType"), b, 1), b),
                         b, "NatureOfAddressIndicator")
           [] OTHER -> st

\* infoLen := 1 + int(p.Length) - offset
InfoLen(st) == 1 + st.p.Length - st.offset

\* the misfit check left out
Misfit_Dropped(infoLen) == FALSE

\* if infoLen < 0 { return errors.New("sccp: party address length misfit") }
Misfit(infoLen) == infoLen < 0

\* UnmarshalBinary taking the whole rest of the buffer as the digits
UnmarshalInfo_RestOfBuffer(st, b) ==
    IF st.err # "nil" THEN st
    ELSE IF Misfit(InfoLen(st)) THEN Fail(st, "misfit")
    ELSE IF ~InSlice(b, st.offset, Len(b)) THEN Fail(st, "panic")
    ELSE [st EXCEPT !.p.GlobalTitleInfo = Slice(b, st.offset, Len(b))]

\* p.GlobalTitleInfo = make([]byte, infoLen); copy(p.GlobalTitleInfo, b[offset:])
UnmarshalInfo(st, b) ==
    IF st.err # "nil" THEN st
    ELSE IF Misfit(InfoLen(st)) THEN Fail(st, "misfit")
    ELSE IF InfoLen(st) < 0 \/ ~InSlice(b, st.offset, Len(b)) THEN Fail(st, "panic")
    ELSE [st EXCEPT !.p.GlobalTitleInfo =
                        Copy(MakeBytes(InfoLen(st)), Slice(b, st.offset, Len(b)))]

UnmarshalBinary(v, b) ==
    UnmarshalInfo(UnmarshalGT(UnmarshalSSN(UnmarshalPC(UnmarshalHeader(v, b), b), b), b), b)

ParsePartyAddress(b) ==
    LET r == UnmarshalBinary(ZeroValue, b)
    IN  IF r.err # "nil" THEN [r EXCEPT !.p = Nil] ELSE r

(***************************************************************************)
(* The inputs explored.                                                    *)
(***************************************************************************)
Indicators == 0..255

\* n digit bytes 0x21, 0x43, 0x65, ...
Fill(n) == [i \in 1..n |-> (33 + 34 * (i - 1)) % 256]

ProfZero == [spc |-> 0, ssn |-> 0, tt |-> 0, np |-> 0, es |-> 0, nai |-> 0]

ProfA == [spc |-> 0, ssn |-> 6, tt |-> 0, np |-> 1, es |-> 2, nai |-> 3]

ProfDistinct == [spc |-> 4660, ssn |-> 86, tt |-> 120, np |-> 9, es |-> 10, nai |-> 188]

\* NumberingPlan and EncodingScheme wider than four bits
ProfWide == [spc |-> 16383, ssn |-> 254, tt |-> 255, np |-> 17, es |-> 32, nai |-> 128]

Profiles == {ProfZero, ProfA, ProfDistinct, ProfWide}

InfoLens == (0..ShortInfoLen) \cup {MaxInfoLen}

NewInputs ==
    {x \in Indicators \X Profiles \X InfoLens : x[3] > ShortInfoLen => x[2] = ProfZero}

LiteralInputs == Indicators \X {ProfDistinct} \X (0..ShortInfoLen)

New(i, f, n) == NewPartyAddress(i, f.spc, f.ssn, f.tt, f.np, f.es, f.nai, Fill(n))

Lit(i, f, n) == Literal(i, f.spc, f.ssn, f.tt, f.np, f.es, f.nai, Fill(n))

LengthBytes == (0..(MaxBufLen + 1)) \cup {255}

Buffers ==
    {<<>>} \cup {<<l>> : l \in LengthBytes}
    \cup {<<x[1], x[2]>> \o Fill(x[3]) :
            x \in LengthBytes \X Indicators \X (0..(MaxBufLen - 2))}

\* the values reused as the receiver of UnmarshalBinary
Receivers == {New(19, ProfDistinct, ShortInfoLen), New(18, ProfA, ShortInfoLen)}

(***************************************************************************)
(* The state machine: a caller builds a value and encodes it, decodes the  *)
(* encoding or a prefix of it, or decodes a buffer and encodes the result. *)
(*   p      the PartyAddress the caller holds (Nil: none)                  *)
(*   pfrom  how p was made                                                 *)
(*   wire   the bytes of the last MarshalBinary, src the value it encoded  *)
(*   buf    the buffer given to the last decode, err its outcome           *)
(*   off    the cursor (offset) the last encode or decode reached          *)
(*   op     the last operation                                             *)
(***************************************************************************)
Init ==
    /\ p = Nil
    /\ pfrom = "none"
    /\ wire = <<>>
    /\ src = Nil
    /\ buf = <<>>
    /\ err = "nil"
    /\ off = 0
    /\ op = "start"

Built == {"NewPartyAddress", "Literal", "SetLength"}

DoNew ==
    /\ op = "start"
    /\ \E x \in NewInputs : p' = New(x[1], x[2], x[3])
    /\ pfrom' = "NewPartyAddress"
    /\ op' = "NewPartyAddress"
    /\ UNCHANGED <<wire, src, buf, err, off>>

DoLiteral ==
    /\ op = "start"
    /\ \E x \in LiteralInputs : p' = Lit(x[1], x[2], x[3])
    /\ pfrom' = "Literal"
    /\ op' = "Literal"
    /\ UNCHANGED <<wire, src, buf, err, off>>

DoSetLength ==
    /\ op \in Built
    /\ p' = SetLength(p)
    /\ pfrom' = "SetLength"
    /\ op' = "SetLength"
    /\ UNCHANGED <<wire, src, buf, err, off>>

DoMarshalBinary ==
    /\ p # Nil
    /\ op \in Built \cup {"ParsePartyAddress", "ParseWire", "UnmarshalBinary"}
    /\ err = "nil"
    /\ LET st == MarshalTo(p, MakeBytes(MarshalLen(p)))
       IN  /\ wire' = IF st.panic THEN <<>> ELSE MarshalBinary(p)
           /\ err' = IF st.panic THEN "panic" ELSE "nil"
           /\ off' = st.offset
    /\ src' = p
    /\ op' = "MarshalBinary"
    /\ UNCHANGED <<p, pfrom, buf>>

\* ParsePartyAddress on the first k bytes of the encoding of a built value,
\* for every k up to the whole encoding
DoParseWire ==
    /\ op = "MarshalBinary"
    /\ pfrom \in Built
    /\ err = "nil"
    /\ \E k \in 0..Len(wire) :
         LET r == ParsePartyAddress(SubSeq(wire, 1, k))
         IN  /\ p' = r.p
             /\ err' = r.err
             /\ off' = r.offset
             /\ buf' = SubSeq(wire, 1, k)
    /\ pfrom' = "ParsePartyAddress"
    /\ op' = "ParseWire"
    /\ UNCHANGED <<wire, src>>

DoParsePartyAddress ==
    /\ op = "start"
    /\ \E b \in Buffers :
         LET r == ParsePartyAddress(b)
         IN  /\ p' = r.p
             /\ err' = r.err
             /\ off' = r.offset
             /\ buf' = b
    /\ pfrom' = "ParsePartyAddress"
    /\ op' = "ParsePartyAddress"
    /\ UNCHANGED <<wire, src>>

\* p.UnmarshalBinary(b) on a receiver that already holds a value
DoUnmarshalBinary ==
    /\ op = "NewPartyAddress"
    /\ p \in Receivers
    /\ \E b \in Buffers :
         LET r == UnmarshalBinary(p, b)
         IN  /\ p' = r.p
             /\ err' = r.err
             /\ off' = r.offset
             /\ buf' = b
    /\ pfrom' = "UnmarshalBinary"
    /\ op' = "UnmarshalBinary"
    /\ UNCHANGED <<wire, src>>

Next ==
    \/ DoNew
    \/ DoLiteral
    \/ DoSetLength
    \/ DoMarshalBinary
    \/ DoParseWire
    \/ DoParsePartyAddress
    \/ DoUnmarshalBinary

Spec == Init /\ [][Next]_vars

(***************************************************************************)
(* The layout the specification tabulates, written from the indicator      *)
(* byte alone.                                                             *)
(***************************************************************************)
Bit(x, n) == (x \div (2 ^ n)) % 2

GtiOf(ind) == (ind \div 4) % 16

\* bytes between the indicator and the digits: 2 for PC, 1 for SSN,
\* 0/1/1/2/3 for GTI 0/1/2/3/4 and 0 for GTI 5-15
FixedBytes(ind) ==
    2 * Bit(ind, 0) + Bit(ind, 1)
    + (IF GtiOf(ind) \in 1..4 THEN <<1, 1, 2, 3>>[GtiOf(ind)] ELSE 0)

GtiLayout(v) ==
    LET g == GtiOf(v.Indicator)
        packed == v.NumberingPlan * 16 + v.EncodingScheme
    IN  IF g = 1 THEN <<v.NatureOfAddressIndicator>>
        ELSE IF g = 2 THEN <<v.TranslationType>>
        ELSE IF g = 3 THEN <<v.TranslationType, packed>>
        ELSE IF g = 4 THEN <<v.TranslationType, packed, v.NatureOfAddressIndicator>>
        ELSE <<>>

Layout(v) ==
    <<v.Length, v.Indicator>>
    \o (IF Bit(v.Indicator, 0) = 1
        THEN <<v.SignalingPointCode \div 256, v.SignalingPointCode % 256>>
        ELSE <<>>)
    \o (IF Bit(v.Indicator, 1) = 1 THEN <<v.SubsystemNumber>> ELSE <<>>)
    \o GtiLayout(v)
    \o v.GlobalTitleInfo

\* Length is the wire length minus one
Consistent(v) == v.Length + 1 = MarshalLen(v)

\* a valid value: four-bit NumberingPlan and EncodingScheme, at most 250
\* digit bytes, and zero in every field the indicator leaves off the wire
Canonical(v) ==
    /\ v.NumberingPlan < 16 /\ v.EncodingScheme < 16
    /\ Len(v.GlobalTitleInfo) <= 250
    /\ (Bit(v.Indicator, 0) = 0 => v.SignalingPointCode = 0)
    /\ (Bit(v.Indicator, 1) = 0 => v.SubsystemNumber = 0)
    /\ (GtiOf(v.Indicator) \notin {2, 3, 4} => v.TranslationType = 0)
    /\ (GtiOf(v.Indicator) \notin {3, 4} => v.NumberingPlan = 0 /\ v.EncodingScheme = 0)
    /\ (GtiOf(v.Indicator) \notin {1, 4} => v.NatureOfAddressIndicator = 0)

Decodes == {"ParsePartyAddress", "ParseWire", "UnmarshalBinary"}

Parses == {"ParsePartyAddress", "ParseWire"}

ScenarioA == NewPartyAddress(18, 0, 6, 0, 1, 2, 3, <<33, 67>>)

ScenarioB == NewPartyAddress(0, 0, 0, 0, 0, 0, 0, <<>>)

(***************************************************************************)
(* The claims.                                                             *)
(***************************************************************************)

\* C1 (as claimed): parsing the whole encoding of a valid value whose Length
\* is consistent succeeds and gives back a value equal in every field.
C1_RoundTrip ==
    (op = "ParseWire" /\ buf = wire /\ Canonical(src) /\ Consistent(src))
        => (err = "nil" /\ p = src)

\* C2 (as claimed): once NewPartyAddress or SetLength has set Length,
\* MarshalBinary returns MarshalLen() bytes and the first byte is that count
\* minus one.
C2_LengthAgreement ==
    (op = "MarshalBinary" /\ pfrom \in {"NewPartyAddress", "SetLength"}
     /\ Len(p.GlobalTitleInfo) <= 250)
        => (Len(wire) = MarshalLen(p) /\ wire[1] = Len(wire) - 1)

\* C3: no decode, of any buffer, indexes or slices the buffer out of range or
\* allocates a negative number of digit bytes; it returns an error or succeeds.
C3_DecoderBoundsSafe ==
    op \in Decodes => err \in {"nil", "eof", "misfit"}

C3_Witness ==
    /\ op = "ParsePartyAddress" /\ err = "nil"
    /\ Bit(p.Indicator, 0) = 1 /\ Bit(p.Indicator, 1) = 1 /\ GtiOf(p.Indicator) = 4
    /\ off = Len(buf)

\* C4: ParsePartyAddress on a proper prefix of the encoding of a value with a
\* consistent Length returns the truncated-input error and a nil value.
C4_TruncatedPrefix ==
    (op = "ParseWire" /\ Len(buf) < Len(wire) /\ Consistent(src))
        => (err = "eof" /\ p = Nil)

C4_Witness ==
    /\ op = "ParseWire" /\ Consistent(src)
    /\ Len(buf) >= 3 /\ Len(buf) = Len(wire) - 1
    /\ err = "eof" /\ p = Nil

\* C5: with four-bit NumberingPlan and EncodingScheme, MarshalBinary gives
\* Length, Indicator, the big-endian point code iff bit 0, the subsystem number
\* iff bit 1, the fixed bytes of the GTI in the tabulated order, then the
\* digits; scenarios A and B give the bytes the specification lists.
C5_WireLayout ==
    op = "MarshalBinary" =>
        /\ (p.NumberingPlan < 16 /\ p.EncodingScheme < 16) => wire = Layout(p)
        /\ p = ScenarioA => wire = <<7, 18, 6, 0, 18, 3, 33, 67>>
        /\ p = ScenarioB => wire = <<1, 0>>

C5_Witness ==
    /\ op = "MarshalBinary" /\ p = ScenarioA
    /\ wire = <<7, 18, 6, 0, 18, 3, 33, 67>>

\* the buffer of C6: at least three bytes, a length byte below the buffer
\* length, and an indicator announcing more fixed bytes than 1 + length
C6_Case ==
    /\ op \in Parses
    /\ Len(buf) >= 3 /\ buf[1] < Len(buf)
    /\ 2 + FixedBytes(buf[2]) > 1 + buf[1]

\* the bounds checks UnmarshalBinary makes on the fixed fields all pass
C6_FieldsFit ==
    LET pc == 2 * Bit(buf[2], 0)
        ssn == Bit(buf[2], 1)
        g == GtiOf(buf[2])
    IN  /\ (pc = 2 => Len(buf) > 4)
        /\ (ssn = 1 => Len(buf) > 3 + pc)
        /\ (g = 3 => Len(buf) > 3 + pc + ssn)
        /\ (g = 4 => Len(buf) > 4 + pc + ssn)

\* C6 (as claimed): every such buffer gets the length-misfit error.
C6_AlwaysMisfit == C6_Case => err = "misfit"

\* C6 (amended): such a buffer gets the length-misfit error when it is long
\* enough to pass the bounds checks on the fixed fields, as every buffer longer
\* than the fixed-field count is, and the truncated-input error otherwise; it
\* never succeeds.
C6_MisfitWhenFieldsFit ==
    C6_Case =>
        /\ p = Nil
        /\ (Len(buf) > 2 + FixedBytes(buf[2]) => err = "misfit")
        /\ (C6_FieldsFit => err = "misfit")
        /\ (~C6_FieldsFit => err = "eof")

C6_Witness ==
    /\ C6_Case /\ Len(buf) > 2 + FixedBytes(buf[2])
    /\ GtiOf(buf[2]) = 4 /\ err = "misfit"

\* C7: UnmarshalBinary on a buffer of at least three bytes whose length byte is
\* not below the buffer length returns the truncated-input error and leaves
\* every field of the receiver but Length as it was.
C7_LengthCheckFirst ==
    [][(op' = "UnmarshalBinary" /\ Len(buf') >= 3 /\ buf'[1] >= Len(buf'))
        => /\ err' = "eof"
           /\ p'.Indicator = p.Indicator
           /\ p'.SignalingPointCode = p.SignalingPointCode
           /\ p'.SubsystemNumber = p.SubsystemNumber
           /\ p'.TranslationType = p.TranslationType
           /\ p'.NumberingPlan = p.NumberingPlan
           /\ p'.EncodingScheme = p.EncodingScheme
           /\ p'.NatureOfAddressIndicator = p.NatureOfAddressIndicator
           /\ p'.GlobalTitleInfo = p.GlobalTitleInfo]_vars

C7_Witness ==
    /\ op = "UnmarshalBinary" /\ Len(buf) >= 3 /\ buf[1] >= Len(buf)
    /\ err = "eof"
    /\ p.Length = buf[1] /\ p.Indicator # buf[2]
    /\ p.SubsystemNumber # 0 /\ p.GlobalTitleInfo # <<>>

\* C8: the count of fixed bytes between the indicator and the digits is that
\* of the table, whatever bits 6 and 7 are, in MarshalLen (the bytes
\* MarshalBinary allocates), in MarshalTo (its cursor), in SetLength and in a
\* successful UnmarshalBinary (its cursor).
C8_OneLayoutTable ==
    /\ op = "MarshalBinary" =>
         /\ off = 2 + FixedBytes(p.Indicator % 64)
         /\ Len(wire) = 2 + FixedBytes(p.Indicator % 64) + Len(p.GlobalTitleInfo)
    /\ op = "SetLength" =>
         p.Length = (1 + FixedBytes(p.Indicator % 64) + Len(p.GlobalTitleInfo)) % 256
    /\ (op \in Decodes /\ err = "nil") =>
         off = 2 + FixedBytes(p.Indicator % 64)

C8_Witness ==
    /\ op = "ParseWire" /\ err = "nil"
    /\ p.Indicator >= 192 /\ GtiOf(p.Indicator) >= 5 /\ Bit(p.Indicator, 0) = 1
    /\ off = 4 /\ Len(p.GlobalTitleInfo) > 0

\* C9 (as claimed): for GTI 3 and 4 the packed byte MarshalTo writes is
\* (NumberingPlan mod 16) * 16 + (EncodingScheme mod 16).
C9_NibbleTruncation ==
    (op = "MarshalBinary" /\ GtiOf(p.Indicator) \in {3, 4})
        => wire[2 + 2 * Bit(p.Indicator, 0) + Bit(p.Indicator, 1) + 2]
             = (p.NumberingPlan % 16) * 16 + (p.EncodingScheme % 16)

\* C10: a value ParsePartyAddress returns has Length + 1 = MarshalLen() <=
\* len(b), its digits are the bytes of b from the cursor up to position b[0],
\* and MarshalBinary of it is the first b[0] + 1 bytes of b.
C10_ReencodeIdentity ==
    /\ (op \in Parses /\ err = "nil") =>
         /\ p.Length + 1 = MarshalLen(p)
         /\ MarshalLen(p) <= Len(buf)
         /\ p.GlobalTitleInfo = SubSeq(buf, off + 1, buf[1] + 1)
    /\ (op = "MarshalBinary" /\ pfrom = "ParsePartyAddress") =>
         wire = SubSeq(buf, 1, buf[1] + 1)

C10_Witness ==
    /\ op = "MarshalBinary" /\ pfrom = "ParsePartyAddress"
    /\ Len(buf) > buf[1] + 1
    /\ Len(p.GlobalTitleInfo) > 0 /\ GtiOf(p.Indicator) = 4
    /\ wire = SubSeq(buf, 1, buf[1] + 1)

====
